---- MODULE Spec2Model ----
(***************************************************************************)
(* A model of camel_terminal_toolkit/server.py: the module-level registry  *)
(* (terminal_toolkit, toolkit_kwargs), initialize_toolkit, and the two     *)
(* request handlers list_tools and call_tool.                              *)
(*                                                                         *)
(* Python values are tagged records, text is a TLA+ string, a keyword      *)
(* mapping is a set of <<key, value>> pairs with unique keys.              *)
(***************************************************************************)
EXTENDS Integers, Sequences, FiniteSets, TLC

VARIABLES
    terminal_toolkit,   \* the global of line 29: None or the built instance
    toolkit_kwargs,     \* the global of line 30: the keyword mapping for the factory
    factory_calls,      \* how many times TerminalToolkit(**toolkit_kwargs) was evaluated
    process,            \* "running" | "exited"
    nreq,               \* requests handled so far
    last,               \* what the most recent handler run did
    first,              \* what the first handler run did with the factory
    failed_once,        \* some factory invocation has raised
    tasks,              \* handler coroutines on the event loop (concurrent specification)
    running             \* the coroutine that holds the event loop, 0 when none does

vars == <<terminal_toolkit, toolkit_kwargs, factory_calls, process, nreq, last,
          first, failed_once, tasks, running>>

-----------------------------------------------------------------------------
(* Bounds *)

MaxRequests == 3     \* requests in one run of the sequential specification
MaxTools == 2        \* length of the list get_tools() returns
NumTasks == 2        \* coroutines pending at once in the concurrent specification

-----------------------------------------------------------------------------
(* Python values *)

None == [t |-> "None"]
Empty == [t |-> "empty"]                 \* inspect.Parameter.empty
PyStr(s) == [t |-> "str", s |-> s]
PyInt(n) == [t |-> "int", n |-> n]
PyBool(b) == [t |-> "bool", b |-> b]

\* str(v)
Str(v) ==
    CASE v.t = "str" -> v.s
      [] v.t = "int" -> ToString(v.n)
      [] v.t = "bool" -> (IF v.b THEN "True" ELSE "False")
      [] v.t = "None" -> "None"

\* isinstance(v, str)
IsStr(v) == v.t = "str"

\* bool(v) for the objects the handlers test: None is false, a toolkit
\* instance and a function object are true.
Truthy(v) == v # None

\* Exceptions: a class, whether the class derives from Exception, and str(e).
Exc(cls, derives, msg) == [t |-> "exc", cls |-> cls, isException |-> derives, msg |-> msg]

\* `except Exception` matches e
CaughtAsException(e) == e.isException

\* str(e)
StrExc(e) == e.msg

Keys(mapping) == {p[1] : p \in mapping}

-----------------------------------------------------------------------------
(* Callables the toolkit may expose.  A callable has a __name__, a __doc__  *)
(* (None or a string, kept as its characters) and a signature: parameters  *)
(* in declaration order, each with an annotation and a default (Empty when *)
(* it has none).                                                           *)

Param(name, annotation, default) ==
    [name |-> name, annotation |-> annotation, default |-> default]

Doc(chars) == [t |-> "str", chars |-> chars]

Echo ==
    [name |-> "echo",
     doc |-> Doc(<<" ", "E", "c", "h", "o", ".", " ", "\n", " ", "m", "o", "r", "e">>),
     params |-> <<Param("x", "str", Empty)>>]

Add ==
    [name |-> "add",
     doc |-> None,
     params |-> <<Param("a", "int", Empty),
                  Param("b", "bool", PyInt(1)),
                  Param("c", "empty", Empty),
                  Param("d", "float", None)>>]

\* a second callable whose __name__ is "echo", with an empty docstring
EchoAgain ==
    [name |-> "echo",
     doc |-> Doc(<<>>),
     params |-> <<>>]

Funcs == {Echo, Add, EchoAgain}

\* The lists get_tools() may return: any callables, in any order.
ToolLists == UNION {[1..n -> Funcs] : n \in 0..MaxTools}

-----------------------------------------------------------------------------
(* Text helpers for lines 54 and 83 *)

\* the index of the first "\n" in chars, Len(chars) + 1 when there is none
FirstNewline(chars) ==
    LET hits == {i \in 1..Len(chars) : chars[i] = "\n"}
    IN IF hits = {} THEN Len(chars) + 1
       ELSE CHOOSE i \in hits : \A j \in hits : i <= j

\* s.split('\n')[0]
FirstLine(chars) == SubSeq(chars, 1, FirstNewline(chars) - 1)

IsSpace(c) == c \in {" ", "\t", "\n", "\r"}

\* s.strip()
Strip(chars) ==
    LET keep == {i \in 1..Len(chars) : ~IsSpace(chars[i])}
    IN IF keep = {} THEN <<>>
       ELSE LET lo == CHOOSE i \in keep : \A j \in keep : i <= j
                hi == CHOOSE i \in keep : \A j \in keep : i >= j
            IN SubSeq(chars, lo, hi)

RECURSIVE Join(_)
Join(chars) == IF chars = <<>> THEN "" ELSE Head(chars) \o Join(Tail(chars))

\* func.__doc__ or f"Execute {func_name}", then .split('\n')[0].strip()  (lines 54, 83)
Description(func) ==
    IF func.doc = None \/ func.doc.chars = <<>>
    THEN "Execute " \o func.name
    ELSE Join(Strip(FirstLine(func.doc.chars)))

-----------------------------------------------------------------------------
(* list_tools: the descriptor of one callable (lines 52-93) *)

\* lines 61-71
param_type(annotation) ==
    IF annotation # "empty"
    THEN CASE annotation = "str" -> "string"
           [] annotation = "int" -> "number"
           [] annotation = "bool" -> "boolean"
           [] OTHER -> "string"
    ELSE "string"

\* line 76: param.default != inspect.Parameter.empty
HasDefault(param) == param.default # Empty

\* line 89 as it would read with `param.default is None` added to the test
LacksDefaultOrNone(param) == param.default = Empty \/ param.default = None

\* line 89: param.default == inspect.Parameter.empty
LacksDefault(param) == param.default = Empty

\* lines 73-77
param_info(param) ==
    IF HasDefault(param)
    THEN [type |-> param_type(param.annotation),
          description |-> "Parameter " \o param.name,
          default |-> param.default]
    ELSE [type |-> param_type(param.annotation),
          description |-> "Parameter " \o param.name]

\* d[k] = v on a dict kept as its <<key, value>> items in insertion order
DictSet(d, k, v) ==
    IF \E i \in 1..Len(d) : d[i][1] = k
    THEN [i \in 1..Len(d) |-> IF d[i][1] = k THEN <<k, v>> ELSE d[i]]
    ELSE Append(d, <<k, v>>)

DictKeys(d) == {d[i][1] : i \in 1..Len(d)}

DictGet(d, k) == d[CHOOSE i \in 1..Len(d) : d[i][1] = k][2]

\* lines 58-79: the loop over sig.parameters.items()
RECURSIVE BuildParameters(_, _)
BuildParameters(params, parameters) ==
    IF params = <<>> THEN parameters
    ELSE BuildParameters(Tail(params),
                         DictSet(parameters, Head(params).name, param_info(Head(params))))

\* lines 87-90: the comprehension over sig.parameters.items()
RECURSIVE RequiredNames(_)
RequiredNames(params) ==
    IF params = <<>> THEN <<>>
    ELSE IF LacksDefault(Head(params))
         THEN <<Head(params).name>> \o RequiredNames(Tail(params))
         ELSE RequiredNames(Tail(params))

\* lines 81-92
ToolOf(func) ==
    [name |-> func.name,
     description |-> Description(func),
     inputSchema |-> [type |-> "object",
                      properties |-> BuildParameters(func.params, <<>>),
                      required |-> RequiredNames(func.params)]]

\* lines 47-95: one Tool per element of get_tools(), in order
ListedTools(function_tools) ==
    [i \in 1..Len(function_tools) |-> ToolOf(function_tools[i])]

-----------------------------------------------------------------------------
(* Configuration: parse_args and the assignment of main *)

PyFloat(repr) == [t |-> "float", repr |-> repr]

\* The parsed command lines considered: --working-directory given or not,
\* timeout, safe mode and interactive keep their defaults.
Argvs ==
    [working_directory : {None, PyStr("/w")},
     timeout : {PyFloat("20.0")},
     safe_mode : {PyBool(TRUE)},
     interactive : {PyBool(FALSE)}]

\* lines 181-188: the keyword mapping built from the parsed arguments
parse_args(args) ==
    LET base == {<<"timeout", args.timeout>>,
                 <<"safe_mode", args.safe_mode>>,
                 <<"interactive", args.interactive>>}
    IN IF args.working_directory # None /\ args.working_directory.s # ""
       THEN base \cup {<<"working_directory", args.working_directory>>}
       ELSE base

-----------------------------------------------------------------------------
(* The registry: initialize_toolkit and the lazy check of both handlers *)

\* What one evaluation of TerminalToolkit(**toolkit_kwargs) may do: build an
\* instance exposing some list of callables, or raise.
FactoryErrors == {Exc("ValueError", TRUE, "bad configuration")}

FactoryOutcomes ==
    {[ok |-> TRUE, tools |-> tl] : tl \in ToolLists}
        \cup {[ok |-> FALSE, exc |-> e] : e \in FactoryErrors}

\* the object line 38 constructs: its identity, the keywords it was built
\* with and the callables its get_tools() returns
Instance(id, kwargs, tools) ==
    [t |-> "TerminalToolkit", id |-> id, kwargs |-> kwargs, tools |-> tools]

\* lines 36, 44, 101 with the test dropped: every request builds
NotToolkitAlways(tk) == TRUE

\* lines 36, 44, 101: `not terminal_toolkit`
NotToolkit(tk) == ~Truthy(tk)

\* line 38: the factory is invoked; the global is assigned when it returns.
\* The new value of the global, the number of factory invocations, and the
\* exception that left the statement (None when none did).
Construct(tk, kwargs, calls, fo) ==
    IF fo.ok
    THEN [toolkit |-> Instance(calls + 1, kwargs, fo.tools),
          invoked |-> 1, raised |-> None]
    ELSE [toolkit |-> tk, invoked |-> 1, raised |-> fo.exc]

\* lines 33-38
initialize_toolkit(tk, kwargs, calls, fo) ==
    IF NotToolkit(tk)
    THEN Construct(tk, kwargs, calls, fo)
    ELSE [toolkit |-> tk, invoked |-> 0, raised |-> None]

\* lines 44-45 and 101-102
EnsureToolkit(tk, kwargs, calls, fo) ==
    IF NotToolkit(tk)
    THEN initialize_toolkit(tk, kwargs, calls, fo)
    ELSE [toolkit |-> tk, invoked |-> 0, raised |-> None]

\* terminal_toolkit.get_tools()
get_tools(tk) == tk.tools

-----------------------------------------------------------------------------
(* The handlers.  A handler run ends with a value returned to the transport *)
(* or with an exception leaving the handler.                                *)

Return(value) == [kind |-> "return", value |-> value]
Raise(exc) == [kind |-> "raise", exc |-> exc]

TextContent(text) == [type |-> "text", text |-> text]

\* lines 41-95
ListToolsBody(tk) == Return(ListedTools(get_tools(tk)))

\* lines 107-112 without the comparison of line 110: the first callable wins
FindToolFirst(function_tools, name) ==
    IF function_tools = <<>> THEN None ELSE function_tools[1]

\* lines 107-112: the first callable whose __name__ is name, None when none is
FindTool(function_tools, name) ==
    LET hits == {i \in 1..Len(function_tools) : function_tools[i].name = name}
    IN IF hits = {} THEN None
       ELSE function_tools[CHOOSE i \in hits : \A j \in hits : i <= j]

\* line 121, the binding of **arguments to the signature: the TypeError the
\* interpreter raises before the body runs, None when the call binds
BindError(func, arguments) ==
    LET names == {func.params[i].name : i \in 1..Len(func.params)}
        needed == {func.params[i].name :
                      i \in {j \in 1..Len(func.params) : func.params[j].default = Empty}}
    IN IF Keys(arguments) \ names # {}
       THEN Exc("TypeError", TRUE,
                func.name \o "() got an unexpected keyword argument")
       ELSE IF needed \ Keys(arguments) # {}
            THEN Exc("TypeError", TRUE,
                     func.name \o "() missing required arguments")
            ELSE None

\* lines 124-127 with repr() in place of the string itself
ResultContentRepr(result) ==
    IF IsStr(result)
    THEN <<TextContent("'" \o result.s \o "'")>>
    ELSE <<TextContent(Str(result))>>

\* lines 124-127
ResultContent(result) ==
    IF IsStr(result)
    THEN <<TextContent(result.s)>>
    ELSE <<TextContent(Str(result))>>

\* lines 129-134 with the handler re-raising what it caught
ExceptClauseReraise(name, e) == Raise(e)

\* lines 129-134: what the except clause does with an exception raised in
\* the try block
ExceptClause(name, e) ==
    IF CaughtAsException(e)
    THEN Return(<<TextContent("Error calling tool " \o name \o ": " \o StrExc(e))>>)
    ELSE Raise(e)

\* lines 104-134.  out is what the callable's body does when it runs.
\* result: how the handler ends; calls: the evaluations of
\* target_func(**arguments), each with the callable and the keywords;
\* outcome: how that evaluation ended, None when there was none.
CallToolBody(tk, name, arguments, out) ==
    LET target_func == FindTool(get_tools(tk), name)
    IN IF ~Truthy(target_func)
       THEN [result |-> Return(<<TextContent("Tool '" \o name \o "' not found")>>),
             calls |-> <<>>, outcome |-> None]
       ELSE LET bind == BindError(target_func, arguments)
                call == <<[func |-> target_func, kwargs |-> arguments]>>
                outcome == IF bind # None THEN Raise(bind) ELSE out
            IN IF outcome.kind = "raise"
               THEN [result |-> ExceptClause(name, outcome.exc),
                     calls |-> call, outcome |-> outcome]
               ELSE [result |-> Return(ResultContent(outcome.value)),
                     calls |-> call, outcome |-> outcome]

\* lines 41-95, the whole handler
list_tools(tk, kwargs, calls, fo) ==
    LET init == EnsureToolkit(tk, kwargs, calls, fo)
    IN IF init.raised # None
       THEN [toolkit |-> init.toolkit, invoked |-> init.invoked,
             result |-> Raise(init.raised), calls |-> <<>>, outcome |-> None]
       ELSE [toolkit |-> init.toolkit, invoked |-> init.invoked,
             result |-> ListToolsBody(init.toolkit), calls |-> <<>>,
             outcome |-> None]

\* lines 98-134 with the lazy initialization moved inside the try block
call_tool_init_in_try(tk, kwargs, calls, name, arguments, fo, out) ==
    LET init == EnsureToolkit(tk, kwargs, calls, fo)
    IN IF init.raised # None
       THEN [toolkit |-> init.toolkit, invoked |-> init.invoked,
             result |-> ExceptClause(name, init.raised), calls |-> <<>>,
             outcome |-> None]
       ELSE LET body == CallToolBody(init.toolkit, name, arguments, out)
            IN [toolkit |-> init.toolkit, invoked |-> init.invoked,
                result |-> body.result, calls |-> body.calls,
                outcome |-> body.outcome]

\* lines 98-134, the whole handler: the lazy initialization is outside the try
call_tool(tk, kwargs, calls, name, arguments, fo, out) ==
    LET init == EnsureToolkit(tk, kwargs, calls, fo)
    IN IF init.raised # None
       THEN [toolkit |-> init.toolkit, invoked |-> init.invoked,
             result |-> Raise(init.raised), calls |-> <<>>, outcome |-> None]
       ELSE LET body == CallToolBody(init.toolkit, name, arguments, out)
            IN [toolkit |-> init.toolkit, invoked |-> init.invoked,
                result |-> body.result, calls |-> body.calls,
                outcome |-> body.outcome]

-----------------------------------------------------------------------------
(* Inputs *)

CallNames == {"echo", "add", "nope"}

ArgMaps ==
    {{},
     {<<"x", PyStr("hi")>>},
     {<<"a", PyInt(1)>>, <<"c", PyInt(2)>>}}

\* what the body of a callable may do
ToolOutcomes ==
    {Return(v) : v \in {PyStr("hi"), PyInt(7), None}}
        \cup {Raise(Exc("ValueError", TRUE, "bad input")),
              Raise(Exc("KeyboardInterrupt", FALSE, ""))}

\* main, lines 209-215: an exception that leaves a handler reaches the
\* transport; it either travels on to async_main, which ends the process, or
\* is reported to the client and the server goes on.
AfterRaise == {"running", "exited"}

-----------------------------------------------------------------------------
(* The sequential specification: one request at a time *)

NoRequest == [op |-> "none"]

Init ==
    /\ terminal_toolkit = None
    /\ toolkit_kwargs = {}
    /\ factory_calls = 0
    /\ process = "running"
    /\ nreq = 0
    /\ last = NoRequest
    /\ first = None
    /\ failed_once = FALSE
    /\ tasks = <<>>
    /\ running = 0

\* main, lines 200-204: toolkit_kwargs = args["toolkit_kwargs"]
SetConfig ==
    /\ process = "running"
    /\ \E args \in Argvs : toolkit_kwargs' = parse_args(args)
    /\ UNCHANGED <<terminal_toolkit, factory_calls, process, nreq, last, first,
                   failed_once, tasks, running>>

\* the inputs a handler run consumes: the factory's outcome when the factory
\* is invoked, the body's outcome when a callable is found and the call
\* binds, the transport's reaction when an exception leaves the handler
FactoryInputs(tk) ==
    IF NotToolkit(tk) THEN FactoryOutcomes
    ELSE {CHOOSE fo \in FactoryOutcomes : ~fo.ok}

BodyInputs(tk, name, arguments) ==
    IF /\ tk # None
       /\ FindTool(get_tools(tk), name) # None
       /\ BindError(FindTool(get_tools(tk), name), arguments) = None
    THEN ToolOutcomes
    ELSE {CHOOSE out \in ToolOutcomes : out.kind = "return"}

TransportInputs(result) ==
    IF result.kind = "raise" THEN AfterRaise ELSE {"running"}

\* the bookkeeping of one handler run h of request (op, name, arguments)
Record(op, name, arguments, h, after) ==
    /\ terminal_toolkit' = h.toolkit
    /\ factory_calls' = factory_calls + h.invoked
    /\ nreq' = nreq + 1
    /\ last' = [op |-> op, name |-> name, arguments |-> arguments,
                result |-> h.result, calls |-> h.calls, outcome |-> h.outcome,
                invoked |-> h.invoked, before |-> terminal_toolkit]
    /\ first' = IF nreq = 0
                THEN [t |-> "first", invoked |-> h.invoked, toolkit |-> h.toolkit,
                      kwargs |-> toolkit_kwargs]
                ELSE first
    /\ failed_once' = (failed_once \/ (h.invoked > 0 /\ h.toolkit = None))
    /\ process' = after
    /\ UNCHANGED <<toolkit_kwargs, tasks, running>>

ListToolsRequest ==
    /\ process = "running"
    /\ nreq < MaxRequests
    /\ \E fo \in FactoryInputs(terminal_toolkit) :
          LET h == list_tools(terminal_toolkit, toolkit_kwargs, factory_calls, fo)
          IN \E after \in TransportInputs(h.result) :
                Record("list", "", {}, h, after)

CallToolRequest ==
    /\ process = "running"
    /\ nreq < MaxRequests
    /\ \E name \in CallNames, arguments \in ArgMaps,
          fo \in FactoryInputs(terminal_toolkit) :
          LET init == EnsureToolkit(terminal_toolkit, toolkit_kwargs, factory_calls, fo)
          IN \E out \in BodyInputs(init.toolkit, name, arguments) :
                LET h == call_tool(terminal_toolkit, toolkit_kwargs, factory_calls,
                                  name, arguments, fo, out)
                IN \E after \in TransportInputs(h.result) :
                      Record("call", name, arguments, h, after)

Next ==
    \/ SetConfig
    \/ ListToolsRequest
    \/ CallToolRequest

Spec == Init /\ [][Next]_vars

-----------------------------------------------------------------------------
(* Properties of the sequential specification *)

ToolNames(tk) == {tk.tools[i].name : i \in 1..Len(tk.tools)}

\* C1: when the construction by the first request succeeds, the factory is
\* invoked exactly once, by that first request, over the whole run, and every
\* later request finds and keeps the instance the first request built.
C1_BuiltOnce ==
    (first # None /\ first.toolkit # None) =>
        /\ first.invoked = 1
        /\ factory_calls = 1
        /\ terminal_toolkit = first.toolkit
        /\ (nreq > 1 => (last.invoked = 0 /\ last.before = first.toolkit))

C1_Witness ==
    /\ nreq = 3
    /\ first # None /\ first.toolkit # None
    /\ last.op = "call"
    /\ last.calls # <<>>
    /\ terminal_toolkit = first.toolkit

\* C2 as stated: whenever the callable raises, whatever the exception,
\* call_tool returns the one block "Error calling tool <name>: <m>".
C2_AnyExceptionReported ==
    (last.op = "call" /\ last.outcome # None /\ last.outcome.kind = "raise") =>
        last.result =
            Return(<<TextContent("Error calling tool " \o last.name \o ": "
                                    \o last.outcome.exc.msg)>>)

\* C2 as amended: when the callable raises an exception whose class derives
\* from Exception, with message m, call_tool returns exactly the one block
\* "Error calling tool <name>: m", a registry that existed before the request
\* is the same object after it, and the server goes on with the registry built.
C2_ExceptionReported ==
    (/\ last.op = "call"
     /\ last.outcome # None
     /\ last.outcome.kind = "raise"
     /\ last.outcome.exc.isException) =>
        /\ last.result =
              Return(<<TextContent("Error calling tool " \o last.name \o ": "
                                      \o last.outcome.exc.msg)>>)
        /\ process = "running"
        /\ terminal_toolkit # None
        /\ (last.before # None => terminal_toolkit = last.before)

C2_Witness ==
    /\ last.op = "call"
    /\ last.outcome = Raise(Exc("ValueError", TRUE, "bad input"))
    /\ last.result =
          Return(<<TextContent("Error calling tool echo: bad input")>>)
    /\ last.before # None

\* C3: a name that is the __name__ of no callable of the registry invokes
\* nothing and returns the one block "Tool '<name>' not found", whatever the
\* arguments.
C3_NotFound ==
    (/\ last.op = "call"
     /\ terminal_toolkit # None
     /\ last.name \notin ToolNames(terminal_toolkit)) =>
        /\ last.calls = <<>>
        /\ last.result =
              Return(<<TextContent("Tool '" \o last.name \o "' not found")>>)

C3_Witness ==
    /\ last.op = "call"
    /\ last.name = "nope"
    /\ last.arguments # {}
    /\ terminal_toolkit # None
    /\ Len(terminal_toolkit.tools) = 2
    /\ last.result = Return(<<TextContent("Tool 'nope' not found")>>)

\* the text Python gives the values the callables of the model return
ExpectedText(v) ==
    CASE v = PyStr("hi") -> "hi"
      [] v = PyInt(7) -> "7"
      [] v = None -> "None"

\* C4: when the callable is found and returns normally, the response is one
\* text block holding the string itself, or str() of any other value, and the
\* callable was called once, with the request's arguments as keywords.
C4_ResultText ==
    (last.op = "call" /\ last.outcome # None /\ last.outcome.kind = "return") =>
        /\ last.result.kind = "return"
        /\ Len(last.result.value) = 1
        /\ last.result.value[1].type = "text"
        /\ last.result.value[1].text = ExpectedText(last.outcome.value)
        /\ Len(last.calls) = 1
        /\ last.calls[1].func.name = last.name
        /\ last.calls[1].kwargs = last.arguments

C4_Witness ==
    /\ last.op = "call"
    /\ last.name = "add"
    /\ last.arguments = {<<"a", PyInt(1)>>, <<"c", PyInt(2)>>}
    /\ last.outcome = Return(PyInt(7))
    /\ last.result = Return(<<TextContent("7")>>)

\* C5: a request whose factory invocation raises ends with that exception
\* leaving the handler, for list_tools and for call_tool alike: no response
\* is returned and no callable is called.
C5_FactoryFailurePropagates ==
    (last.op # "none" /\ last.invoked > 0 /\ terminal_toolkit = None) =>
        /\ last.result.kind = "raise"
        /\ last.result.exc \in FactoryErrors
        /\ last.calls = <<>>

C5_Witness ==
    /\ nreq = 1
    /\ last.op = "call"
    /\ last.name = "echo"
    /\ last.invoked = 1
    /\ last.result = Raise(Exc("ValueError", TRUE, "bad configuration"))

\* C6 as stated: once a factory invocation has raised, the factory is never
\* invoked again.  (Every invocation before a failing one failed too, so
\* this says the failing invocation was the only one.)
C6_NoRetry == failed_once => factory_calls = 1

\* what list_tools listed for callable func is the descriptor tool
DescribesSignature(tool, func) ==
    LET props == tool.inputSchema.properties
        required == tool.inputSchema.required
        n == Len(func.params)
        pos(name) == CHOOSE i \in 1..n : func.params[i].name = name
    IN /\ DictKeys(props) = {func.params[i].name : i \in 1..n}
       /\ Len(props) = n
       /\ \A i \in 1..n :
             /\ (func.params[i].name \in {required[k] : k \in 1..Len(required)})
                   <=> (func.params[i].default = Empty)
             /\ ("default" \in DOMAIN DictGet(props, func.params[i].name))
                   <=> (func.params[i].default # Empty)
       /\ \A j, k \in 1..Len(required) :
             j < k => pos(required[j]) < pos(required[k])
       /\ \A k \in 1..Len(required) : required[k] \in DictKeys(props)

\* C7: every descriptor of a listing has all the parameters of its callable
\* as properties, the parameters without a default as required, in
\* declaration order, and a default entry exactly for those that have one.
C7_Schema ==
    (last.op = "list" /\ last.result.kind = "return") =>
        /\ Len(last.result.value) = Len(terminal_toolkit.tools)
        /\ \A i \in 1..Len(last.result.value) :
              DescribesSignature(last.result.value[i], terminal_toolkit.tools[i])

C7_Witness ==
    /\ last.op = "list"
    /\ last.result.kind = "return"
    /\ \E i \in 1..Len(last.result.value) :
          /\ last.result.value[i].name = "add"
          /\ last.result.value[i].inputSchema.required = <<"a", "c">>
          /\ Len(last.result.value[i].inputSchema.properties) = 4

\* C8 as stated: the descriptors of one listing carry pairwise different
\* names (here for different callables at different positions).
C8_UniqueNames ==
    (last.op = "list" /\ last.result.kind = "return") =>
        \A i, j \in 1..Len(last.result.value) :
            (i # j /\ terminal_toolkit.tools[i] # terminal_toolkit.tools[j]) =>
                last.result.value[i].name # last.result.value[j].name

\* C9 as stated: the toolkit is built with the keyword mapping that
\* toolkit_kwargs held when the first request arrived, and an instance that a
\* request found in place is the instance still in place afterwards, whatever
\* toolkit_kwargs has become.
C9_FirstWriterWins ==
    terminal_toolkit # None =>
        /\ terminal_toolkit.kwargs = first.kwargs
        /\ (last.before # None => terminal_toolkit = last.before)

-----------------------------------------------------------------------------
(* The concurrent specification: NumTasks handler coroutines are pending on *)
(* one event loop.  The loop runs one coroutine at a time and switches only *)
(* when the running coroutine reaches an await or ends.                     *)

\* the positions as they would be with an await before line 38
SuspensionPointsBeforeConstruct == {"construct"}

\* The positions of a handler at which it awaits.  Lines 41-134 and the
\* synchronous initialize_toolkit contain no await expression.
SuspensionPoints == {}

PendingRequests ==
    {[op |-> "list", name |-> "", arguments |-> {}]}
        \cup [op : {"call"}, name : CallNames, arguments : ArgMaps]

\* a coroutine: its request, its position, the instance it constructed
\* (None when it constructed none) and how it ended (None while it runs)
NewTask(req) ==
    [op |-> req.op, name |-> req.name, arguments |-> req.arguments,
     pc |-> "start", built |-> None, invoked |-> 0, result |-> None]

InitConc ==
    /\ terminal_toolkit = None
    /\ toolkit_kwargs = {}
    /\ factory_calls = 0
    /\ process = "running"
    /\ nreq = 0
    /\ last = NoRequest
    /\ first = None
    /\ failed_once = FALSE
    /\ tasks \in [1..NumTasks -> {NewTask(req) : req \in PendingRequests}]
    /\ running = 0

\* the loop may run coroutine i
MayRun(i) ==
    /\ process = "running"
    /\ tasks[i].pc # "done"
    /\ running \in {0, i}

\* coroutine i has moved to position pc: it keeps the loop unless it ended
\* or stands at an await
Yield(i, pc) == IF pc = "done" \/ pc \in SuspensionPoints THEN 0 ELSE i

\* lines 44 and 101: the handler's own test
StepStart(i) ==
    /\ MayRun(i)
    /\ tasks[i].pc = "start"
    /\ LET pc == IF NotToolkit(terminal_toolkit) THEN "init" ELSE "body"
       IN /\ tasks' = [tasks EXCEPT ![i].pc = pc]
          /\ running' = Yield(i, pc)
    /\ UNCHANGED <<terminal_toolkit, toolkit_kwargs, factory_calls, process, nreq,
                   last, first, failed_once>>

\* line 36: the test of initialize_toolkit
StepInit(i) ==
    /\ MayRun(i)
    /\ tasks[i].pc = "init"
    /\ LET pc == IF NotToolkit(terminal_toolkit) THEN "construct" ELSE "body"
       IN /\ tasks' = [tasks EXCEPT ![i].pc = pc]
          /\ running' = Yield(i, pc)
    /\ UNCHANGED <<terminal_toolkit, toolkit_kwargs, factory_calls, process, nreq,
                   last, first, failed_once>>

\* line 38: the factory call and the assignment; an exception leaves the
\* handler (lines 45 and 102 are outside any try)
StepConstruct(i) ==
    /\ MayRun(i)
    /\ tasks[i].pc = "construct"
    /\ \E fo \in FactoryOutcomes :
          LET c == Construct(terminal_toolkit, toolkit_kwargs, factory_calls, fo)
              pc == IF c.raised # None THEN "done" ELSE "body"
          IN \E after \in (IF c.raised # None THEN AfterRaise ELSE {"running"}) :
                /\ terminal_toolkit' = c.toolkit
                /\ factory_calls' = factory_calls + c.invoked
                /\ failed_once' = (failed_once \/ c.raised # None)
                /\ tasks' = [tasks EXCEPT
                                ![i].pc = pc,
                                ![i].invoked = c.invoked,
                                ![i].built = IF c.raised = None THEN c.toolkit ELSE None,
                                ![i].result = IF c.raised # None THEN Raise(c.raised)
                                              ELSE None]
                /\ running' = Yield(i, pc)
                /\ process' = after
    /\ nreq' = IF tasks'[i].pc = "done" THEN nreq + 1 ELSE nreq
    /\ UNCHANGED <<toolkit_kwargs, last, first>>

\* lines 47-95 and 104-134
StepBody(i) ==
    /\ MayRun(i)
    /\ tasks[i].pc = "body"
    /\ \E out \in (IF tasks[i].op = "call"
                   THEN BodyInputs(terminal_toolkit, tasks[i].name, tasks[i].arguments)
                   ELSE {CHOOSE o \in ToolOutcomes : o.kind = "return"}) :
          LET result == IF tasks[i].op = "list"
                        THEN ListToolsBody(terminal_toolkit)
                        ELSE CallToolBody(terminal_toolkit, tasks[i].name,
                                          tasks[i].arguments, out).result
          IN \E after \in TransportInputs(result) :
                /\ tasks' = [tasks EXCEPT ![i].pc = "done", ![i].result = result]
                /\ running' = Yield(i, "done")
                /\ process' = after
    /\ nreq' = nreq + 1
    /\ UNCHANGED <<terminal_toolkit, toolkit_kwargs, factory_calls, last, first,
                   failed_once>>

NextConc ==
    \E i \in 1..NumTasks :
        \/ StepStart(i)
        \/ StepInit(i)
        \/ StepConstruct(i)
        \/ StepBody(i)

SpecConc == InitConc /\ [][NextConc]_vars

\* C10 as stated: with several first requests pending at once, no schedule
\* reaches a state in which the factory has been invoked twice.
C10_FactoryInvokedOnce == factory_calls <= 1

\* The part of C10 that the absence of an await decides: no schedule lets
\* two coroutines construct an instance, and the factory is invoked a second
\* time only after an invocation that raised.
OneInstance ==
    /\ Cardinality({i \in 1..NumTasks : tasks[i].built # None}) <= 1
    /\ (~failed_once => factory_calls <= 1)

OneInstanceReached ==
    /\ \A i \in 1..NumTasks : tasks[i].pc = "done"
    /\ \E i \in 1..NumTasks : tasks[i].built # None
    /\ \A i \in 1..NumTasks : tasks[i].result.kind = "return"

====
